---- MODULE Spec2Model ----
(***************************************************************************)
(* Model of src/src/utils/EnhancedStorageManager.js: a facade over the     *)
(* browser's localStorage that stores named entities under a namespace,    *)
(* wraps each value with a timestamp and a version, and keeps a metadata   *)
(* record ("_metadata") next to the data.                                  *)
(*                                                                         *)
(* JavaScript values are tagged records; the strings held by localStorage  *)
(* are "texts": either the JSON text of a value or a text JSON.parse       *)
(* rejects.  Physical keys are ordinary strings, so startsWith, endsWith   *)
(* and replace are computed on the characters.                             *)
(***************************************************************************)
EXTENDS Integers, Sequences, FiniteSets, TLC

VARIABLES store, facades, now, storeMode, call, ret, accesses

vars == <<store, facades, now, storeMode, call, ret, accesses>>

(***************************************************************************)
(* Bounds                                                                  *)
(***************************************************************************)
\* the wall clock runs from 0 to MaxClock
MaxClock == 1
\* number of facade objects alive at the same time
MaxFacades == 2

(***************************************************************************)
(* JavaScript values                                                       *)
(***************************************************************************)
Undef == [t |-> "undefined"]
JNull == [t |-> "null"]
JBool(b) == [t |-> "boolean", b |-> b]
JTrue == JBool(TRUE)
JFalse == JBool(FALSE)
JNum(n) == [t |-> "number", n |-> n]
JStr(s) == [t |-> "string", s |-> s]
\* the string produced by new Date().toISOString() at instant n
Iso(n) == [t |-> "isostring", ms |-> n]
\* a plain object: f maps property names to values
JObj(f) == [t |-> "object", f |-> f]
\* an array of strings whose order is the store's enumeration order, which
\* localStorage leaves to the user agent: only the elements are modelled
JArr(s) == [t |-> "array", elems |-> s]
\* the outcome of a call that let an exception escape to the caller
Thrown == [t |-> "throw"]
EmptyObj == JObj(<<>>)

IsObj(v) == v.t = "object"
IsNullish(v) == v.t \in {"undefined", "null"}

\* JavaScript truthiness, as used by `!x`
Falsy(v) ==
    \/ v.t \in {"undefined", "null"}
    \/ v.t = "boolean" /\ ~v.b
    \/ v.t = "number" /\ v.n = 0
    \/ v.t = "string" /\ v.s = ""

\* o.k : reading a property of undefined or null is a TypeError (Thrown),
\* a missing property and a property of a primitive read as undefined
Prop(o, k) ==
    IF IsNullish(o) THEN Thrown
    ELSE IF IsObj(o) /\ k \in DOMAIN o.f THEN o.f[k]
    ELSE Undef

\* o with property k set to v (o is an object)
SetProp(o, k, v) ==
    JObj([kk \in DOMAIN o.f \cup {k} |-> IF kk = k THEN v ELSE o.f[kk]])

\* o after `delete o[k]` (o is an object)
DelProp(o, k) ==
    JObj([kk \in DOMAIN o.f \ {k} |-> o.f[kk]])

(***************************************************************************)
(* JSON texts                                                              *)
(***************************************************************************)
\* the JSON text that denotes value v
JsonText(v) == [json |-> TRUE, v |-> v]
\* a text that is not JSON: s is the text itself
RawText(s) == [json |-> FALSE, s |-> s]

\* what JSON.stringify keeps of a value: members whose value is undefined
\* are dropped from objects, at every depth
RECURSIVE Strip(_)
Strip(v) ==
    IF IsObj(v)
    THEN JObj([k \in {kk \in DOMAIN v.f : v.f[kk] # Undef} |-> Strip(v.f[k])])
    ELSE v

\* a value JSON.stringify followed by JSON.parse gives back unchanged
JSONSerializable(v) == v # Undef /\ Strip(v) = v

\* JSON.stringify(v): undefined for undefined, else the text of what is kept
stringify(v) == IF v = Undef THEN Undef ELSE JsonText(Strip(v))

\* the string localStorage.setItem stores for its second argument:
\* a non-string is converted with String(), so undefined becomes "undefined"
ToStored(s) == IF s = Undef THEN RawText("undefined") ELSE s

\* JSON.parse(text): the value, or Thrown for a SyntaxError
parse(text) == IF text.json THEN text.v ELSE Thrown

(***************************************************************************)
(* Strings                                                                 *)
(***************************************************************************)
\* s.startsWith(p)
StartsWith(s, p) == Len(p) <= Len(s) /\ SubSeq(s, 1, Len(p)) = p

\* s.endsWith(p)
EndsWith(s, p) == Len(p) <= Len(s) /\ SubSeq(s, Len(s) - Len(p) + 1, Len(s)) = p

\* s.replace(p, ''): s without the first occurrence of p
ReplaceFirst(s, p) ==
    LET hits == {i \in 1..(Len(s) - Len(p) + 1) : SubSeq(s, i, i + Len(p) - 1) = p}
    IN IF hits = {} THEN s
       ELSE LET i == CHOOSE h \in hits : \A g \in hits : h <= g
            IN SubSeq(s, 1, i - 1) \o SubSeq(s, i + Len(p), Len(s))

(***************************************************************************)
(* localStorage: a map from keys to texts.  storeMode says how the store   *)
(* answers: "ok", "quota" (setItem throws) or "denied" (every access       *)
(* throws).                                                                *)
(***************************************************************************)
EmptyStore == <<>>

\* localStorage.getItem(k): the text, or null
getItem(st, k) == IF k \in DOMAIN st THEN st[k] ELSE JNull

\* localStorage.setItem(k, s)
setItem(st, k, s) ==
    [kk \in DOMAIN st \cup {k} |-> IF kk = k THEN ToStored(s) ELSE st[kk]]

\* localStorage.removeItem(k)
removeItem(st, k) == [kk \in DOMAIN st \ {k} |-> st[kk]]

\* `!stored` for the result of getItem: null or the empty string
NoItem(s) == s = JNull \/ s = RawText("")

\* the result of a handler: the store it leaves, what it returns (Thrown
\* when an exception leaves it) and how many store accesses it made: 0, 1,
\* or 2 for two or more (the exact number of a scan that fails half way
\* depends on the enumeration order)
Out(st, r, n) == [store |-> st, ret |-> r, accesses |-> IF n > 2 THEN 2 ELSE n]

(***************************************************************************)
(* Private methods                                                         *)
(***************************************************************************)
Facade(a, ver, avail) == [appName |-> a, version |-> ver, isAvailable |-> avail]

_getKey(f, entity) == f.appName \o "_" \o entity

\* the wrapper object written for every record
Wrapper(data, t, ver) == JObj([data |-> data, timestamp |-> Iso(t), version |-> JStr(ver)])

_checkStorageAvailability(st, m) ==
    IF m # "ok"
    THEN Out(st, JFalse, 1)
    ELSE Out(removeItem(setItem(st, "__test__", JsonText(JNum(1))), "__test__"), JTrue, 2)

\* _initializeApp without the test for an existing record
_initializeApp_Overwrites(f, st, m, t1, t2) ==
    LET metadataKey == _getKey(f, "_metadata")
    IN IF m = "denied" THEN Out(st, Thrown, 1)
       ELSE IF m # "ok" THEN Out(st, Thrown, 2)
       ELSE Out(setItem(st, metadataKey,
                    stringify(JObj([data |-> JObj([version |-> JStr(f.version),
                                                   createdAt |-> Iso(t1),
                                                   entities |-> EmptyObj]),
                                    timestamp |-> Iso(t2),
                                    version |-> JStr(f.version)]))),
                Undef, 2)

\* t1 and t2 are the two readings of the clock, in program order
_initializeApp(f, st, m, t1, t2) ==
    LET metadataKey == _getKey(f, "_metadata")
    IN IF m = "denied" THEN Out(st, Thrown, 1)
       ELSE IF ~NoItem(getItem(st, metadataKey)) THEN Out(st, Undef, 1)
       ELSE IF m # "ok" THEN Out(st, Thrown, 2)
       ELSE Out(setItem(st, metadataKey,
                    stringify(JObj([data |-> JObj([version |-> JStr(f.version),
                                                   createdAt |-> Iso(t1),
                                                   entities |-> EmptyObj]),
                                    timestamp |-> Iso(t2),
                                    version |-> JStr(f.version)]))),
                Undef, 2)

\* timestamp is the value written into the entity's record, t2 a later
\* reading of the clock
_updateMetadata(f, st, m, entity, timestamp, t2) ==
    LET metadataKey == _getKey(f, "_metadata")
        stored == getItem(st, metadataKey)
        metadataWrapper == parse(stored)
        metadata == Prop(metadataWrapper, "data")
        ents == Prop(metadata, "entities")
        entry == JObj([lastUpdated |-> timestamp, version |-> JStr(f.version)])
        updated == SetProp(metadata, "entities", SetProp(ents, entity, entry))
    IN IF m = "denied" THEN Out(st, Thrown, 1)
       ELSE IF NoItem(stored) THEN Out(st, Undef, 1)
       ELSE IF metadataWrapper = Thrown THEN Out(st, Thrown, 1)
       ELSE IF metadata = Thrown THEN Out(st, Thrown, 1)
       ELSE IF ents = Thrown THEN Out(st, Thrown, 1)
       \* assigning a property of undefined, or (strict mode) of a primitive
       ELSE IF ~IsObj(ents) THEN Out(st, Thrown, 1)
       ELSE IF m # "ok" THEN Out(st, Thrown, 2)
       ELSE Out(setItem(st, metadataKey,
                    stringify(JObj([data |-> updated,
                                    timestamp |-> Iso(t2),
                                    version |-> JStr(f.version)]))),
                Undef, 2)

\* _removeFromMetadata deleting from metadataWrapper.entities, which no
\* wrapper has, instead of metadataWrapper.data.entities
_removeFromMetadata_WrongPath(f, st, m, entity) ==
    LET metadataKey == _getKey(f, "_metadata")
        stored == getItem(st, metadataKey)
        metadataWrapper == parse(stored)
        ents == Prop(metadataWrapper, "entities")
        after == IF IsObj(ents)
                 THEN SetProp(metadataWrapper, "entities", DelProp(ents, entity))
                 ELSE metadataWrapper
    IN IF m = "denied" THEN Out(st, Thrown, 1)
       ELSE IF NoItem(stored) THEN Out(st, Undef, 1)
       ELSE IF metadataWrapper = Thrown THEN Out(st, Thrown, 1)
       ELSE IF ents = Thrown THEN Out(st, Thrown, 1)
       ELSE IF IsNullish(ents) THEN Out(st, Thrown, 1)
       ELSE IF m # "ok" THEN Out(st, Thrown, 2)
       ELSE Out(setItem(st, metadataKey, stringify(after)), Undef, 2)

_removeFromMetadata(f, st, m, entity) ==
    LET metadataKey == _getKey(f, "_metadata")
        stored == getItem(st, metadataKey)
        metadataWrapper == parse(stored)
        data == Prop(metadataWrapper, "data")
        ents == Prop(data, "entities")
        \* delete on a primitive has nothing to delete
        after == IF IsObj(ents)
                 THEN SetProp(metadataWrapper, "data",
                              SetProp(data, "entities", DelProp(ents, entity)))
                 ELSE metadataWrapper
    IN IF m = "denied" THEN Out(st, Thrown, 1)
       ELSE IF NoItem(stored) THEN Out(st, Undef, 1)
       ELSE IF metadataWrapper = Thrown THEN Out(st, Thrown, 1)
       ELSE IF data = Thrown THEN Out(st, Thrown, 1)
       ELSE IF ents = Thrown THEN Out(st, Thrown, 1)
       ELSE IF IsNullish(ents) THEN Out(st, Thrown, 1)
       ELSE IF m # "ok" THEN Out(st, Thrown, 2)
       ELSE Out(setItem(st, metadataKey, stringify(after)), Undef, 2)

(***************************************************************************)
(* Public methods.  Each returns Out(store left, value returned, store     *)
(* accesses made); a try/catch turns a Thrown of its body into the value   *)
(* of its catch clause.                                                    *)
(***************************************************************************)
\* save without the test entity !== '_metadata' before _updateMetadata
save_IndexesItself(f, st, m, entity, data, t1, t2) ==
    LET key == _getKey(f, entity)
        dataToSave == Wrapper(data, t1, f.version)
        st1 == setItem(st, key, stringify(dataToSave))
        um == _updateMetadata(f, st1, m, entity, Prop(dataToSave, "timestamp"), t2)
    IN IF ~f.isAvailable THEN Out(st, JFalse, 0)
       ELSE IF m # "ok" THEN Out(st, JFalse, 1)
       ELSE IF um.ret = Thrown THEN Out(um.store, JFalse, 1 + um.accesses)
       ELSE Out(um.store, JTrue, 1 + um.accesses)

\* t1: the reading of the clock for dataToSave.timestamp, t2: the later
\* reading in _updateMetadata
save(f, st, m, entity, data, t1, t2) ==
    LET key == _getKey(f, entity)
        dataToSave == Wrapper(data, t1, f.version)
        st1 == setItem(st, key, stringify(dataToSave))
        um == _updateMetadata(f, st1, m, entity, Prop(dataToSave, "timestamp"), t2)
    IN IF ~f.isAvailable THEN Out(st, JFalse, 0)
       ELSE IF m # "ok" THEN Out(st, JFalse, 1)
       ELSE IF entity = "_metadata" THEN Out(st1, JTrue, 1)
       ELSE IF um.ret = Thrown THEN Out(um.store, JFalse, 1 + um.accesses)
       ELSE Out(um.store, JTrue, 1 + um.accesses)

\* load returning the parsed wrapper instead of its data
load_NoUnwrap(f, st, m, entity, defaultValue) ==
    LET key == _getKey(f, entity)
        storedData == getItem(st, key)
        parsedData == parse(storedData)
    IN IF ~f.isAvailable THEN Out(st, defaultValue, 0)
       ELSE IF m = "denied" THEN Out(st, defaultValue, 1)
       ELSE IF NoItem(storedData) THEN Out(st, defaultValue, 1)
       ELSE IF parsedData = Thrown THEN Out(st, defaultValue, 1)
       ELSE IF Prop(parsedData, "version") = Thrown THEN Out(st, defaultValue, 1)
       ELSE Out(st, parsedData, 1)

load(f, st, m, entity, defaultValue) ==
    LET key == _getKey(f, entity)
        storedData == getItem(st, key)
        parsedData == parse(storedData)
    IN IF ~f.isAvailable THEN Out(st, defaultValue, 0)
       ELSE IF m = "denied" THEN Out(st, defaultValue, 1)
       ELSE IF NoItem(storedData) THEN Out(st, defaultValue, 1)
       ELSE IF parsedData = Thrown THEN Out(st, defaultValue, 1)
       \* parsedData.version of null is a TypeError
       ELSE IF Prop(parsedData, "version") = Thrown THEN Out(st, defaultValue, 1)
       ELSE Out(st, Prop(parsedData, "data"), 1)

\* remove deleting the record and leaving the metadata entry behind
remove_KeepsEntry(f, st, m, entity) ==
    LET key == _getKey(f, entity)
        st1 == removeItem(st, key)
    IN IF ~f.isAvailable THEN Out(st, JFalse, 0)
       ELSE IF m = "denied" THEN Out(st, JFalse, 1)
       ELSE Out(st1, JTrue, 1)

remove(f, st, m, entity) ==
    LET key == _getKey(f, entity)
        st1 == removeItem(st, key)
        rm == _removeFromMetadata(f, st1, m, entity)
    IN IF ~f.isAvailable THEN Out(st, JFalse, 0)
       ELSE IF m = "denied" THEN Out(st, JFalse, 1)
       ELSE IF entity = "_metadata" THEN Out(st1, JTrue, 1)
       ELSE IF rm.ret = Thrown THEN Out(rm.store, JFalse, 1 + rm.accesses)
       ELSE Out(rm.store, JTrue, 1 + rm.accesses)

RECURSIVE RemoveAll(_, _)
RemoveAll(st, keys) ==
    IF keys = {} THEN st
    ELSE LET k == CHOOSE kk \in keys : TRUE
         IN RemoveAll(removeItem(st, k), keys \ {k})

\* clear sparing the metadata record
clear_KeepsMetadata(f, st, m) ==
    LET keysToRemove == {k \in DOMAIN st : k # "" /\ StartsWith(k, f.appName)
                                           /\ ~EndsWith(k, "_metadata")}
    IN IF ~f.isAvailable THEN Out(st, JFalse, 0)
       ELSE IF m = "denied" THEN Out(st, JFalse, 1)
       ELSE Out(RemoveAll(st, keysToRemove), JTrue,
                1 + 2 * Cardinality(DOMAIN st) + Cardinality(keysToRemove))

clear(f, st, m) ==
    LET keysToRemove == {k \in DOMAIN st : k # "" /\ StartsWith(k, f.appName)}
    IN IF ~f.isAvailable THEN Out(st, JFalse, 0)
       ELSE IF m = "denied" THEN Out(st, JFalse, 1)
       ELSE Out(RemoveAll(st, keysToRemove), JTrue,
                1 + 2 * Cardinality(DOMAIN st) + Cardinality(keysToRemove))

\* t: the reading of the clock for exportedAt
exportData(f, st, m, t) ==
    LET keys == {k \in DOMAIN st : k # "" /\ StartsWith(k, f.appName)}
        bundle == JObj([appName |-> JStr(f.appName),
                        version |-> JStr(f.version),
                        exportedAt |-> Iso(t),
                        data |-> JObj([k \in keys |-> parse(st[k])])])
    IN IF ~f.isAvailable THEN Out(st, JNull, 0)
       ELSE IF m = "denied" THEN Out(st, JNull, 1)
       ELSE IF \E k \in keys : parse(st[k]) = Thrown THEN Out(st, JNull, 2)
       ELSE Out(st, bundle, 1 + 2 * Cardinality(DOMAIN st) + Cardinality(keys))

\* Object.keys finding no property to visit
ObjectKeys_None(v) == {}

\* Object.keys(v): the own properties of an object, none for a number or a
\* boolean
ObjectKeys(v) == IF IsObj(v) THEN DOMAIN v.f ELSE {}

\* the loop of importData handing the value itself to setItem, which
\* stores String(value): "[object Object]" for an object
RECURSIVE SetAll_NoStringify(_, _, _)
SetAll_NoStringify(st, data, keys) ==
    IF keys = {} THEN st
    ELSE LET k == CHOOSE kk \in keys : TRUE
             s == IF IsObj(data.f[k]) THEN RawText("[object Object]")
                  ELSE stringify(data.f[k])
         IN SetAll_NoStringify(setItem(st, k, s), data, keys \ {k})

RECURSIVE SetAll(_, _, _)
SetAll(st, data, keys) ==
    IF keys = {} THEN st
    ELSE LET k == CHOOSE kk \in keys : TRUE
         IN SetAll(setItem(st, k, stringify(data.f[k])), data, keys \ {k})

\* importData testing only that the bundle has data
importData_NoAppNameCheck(f, st, m, bundle) ==
    LET data == Prop(bundle, "data")
        keys == ObjectKeys(data)
    IN IF ~f.isAvailable THEN Out(st, JFalse, 0)
       ELSE IF data = Thrown THEN Out(st, JFalse, 0)
       ELSE IF Falsy(data) THEN Out(st, JFalse, 0)
       ELSE IF keys = {} THEN Out(st, JTrue, 0)
       ELSE IF m # "ok" THEN Out(st, JFalse, 1)
       ELSE Out(SetAll(st, data, keys), JTrue, Cardinality(keys))

importData(f, st, m, bundle) ==
    LET appName == Prop(bundle, "appName")
        data == Prop(bundle, "data")
        keys == ObjectKeys(data)
    IN IF ~f.isAvailable THEN Out(st, JFalse, 0)
       \* importData.appName of null or undefined is a TypeError
       ELSE IF appName = Thrown THEN Out(st, JFalse, 0)
       ELSE IF Falsy(appName) \/ Falsy(data) THEN Out(st, JFalse, 0)
       ELSE IF keys = {} THEN Out(st, JTrue, 0)
       ELSE IF m # "ok" THEN Out(st, JFalse, 1)
       ELSE Out(SetAll(st, data, keys), JTrue, Cardinality(keys))

\* the number of characters of a decimal numeral
RECURSIVE Digits(_)
Digits(n) == IF n < 10 THEN 1 ELSE 1 + Digits(n \div 10)

\* the length of the JSON text of a value
RECURSIVE JsonLen(_)
RECURSIVE MembersLen(_, _)
JsonLen(v) ==
    IF v.t = "null" THEN 4
    ELSE IF v.t = "boolean" THEN (IF v.b THEN 4 ELSE 5)
    ELSE IF v.t = "number" THEN Digits(v.n)
    ELSE IF v.t = "string" THEN Len(v.s) + 2
    ELSE IF v.t = "isostring" THEN 26
    ELSE IF DOMAIN v.f = {} THEN 2
    ELSE 1 + MembersLen(v, DOMAIN v.f)
\* each member is "name":value followed by a comma or the closing brace
MembersLen(v, keys) ==
    IF keys = {} THEN 0
    ELSE LET k == CHOOSE kk \in keys : TRUE
         IN Len(k) + 3 + JsonLen(v.f[k]) + 1 + MembersLen(v, keys \ {k})

\* value.length of a stored text
TextLen(text) == IF text.json THEN JsonLen(text.v) ELSE Len(text.s)

RECURSIVE SumSize(_, _)
SumSize(st, keys) ==
    IF keys = {} THEN 0
    ELSE LET k == CHOOSE kk \in keys : TRUE
         IN Len(k) + TextLen(st[k]) + SumSize(st, keys \ {k})

getStorageInfo(f, st, m) ==
    LET appKeys == {k \in DOMAIN st : StartsWith(k, f.appName)}
    IN IF ~f.isAvailable THEN Out(st, JObj([available |-> JFalse]), 0)
       ELSE IF m = "denied"
       THEN Out(st, JObj([available |-> JFalse, error |-> JStr("SecurityError")]), 1)
       ELSE Out(st, JObj([available |-> JTrue,
                          totalSize |-> JNum(SumSize(st, DOMAIN st)),
                          appSize |-> JNum(SumSize(st, appKeys)),
                          appKeys |-> JNum(Cardinality(appKeys)),
                          totalKeys |-> JNum(Cardinality(DOMAIN st))]),
                2 + 2 * Cardinality(DOMAIN st))

\* the default handed to load by getMetadata; t is the reading of the clock
DefaultMetadata(f, t) ==
    JObj([version |-> JStr(f.version), createdAt |-> Iso(t), entities |-> EmptyObj])

\* getMetadata writing its default into the store when no record is there
getMetadata_Initializes(f, st, m, t) ==
    LET key == _getKey(f, "_metadata")
        found == load(f, st, m, "_metadata", DefaultMetadata(f, t))
    IN IF f.isAvailable /\ m = "ok" /\ NoItem(getItem(st, key))
       THEN Out(setItem(st, key, stringify(Wrapper(found.ret, t, f.version))),
                found.ret, 2)
       ELSE found

getMetadata(f, st, m, t) == load(f, st, m, "_metadata", DefaultMetadata(f, t))

\* exists without the test of isAvailable
exists_NoGuard(f, st, m, entity) ==
    IF m = "denied" THEN Out(st, Thrown, 1)
    ELSE Out(st, JBool(getItem(st, _getKey(f, entity)) # JNull), 1)

\* no try/catch: an exception of getItem leaves the method
exists(f, st, m, entity) ==
    IF ~f.isAvailable THEN Out(st, JFalse, 0)
    ELSE IF m = "denied" THEN Out(st, Thrown, 1)
    ELSE Out(st, JBool(getItem(st, _getKey(f, entity)) # JNull), 1)

\* no try/catch: an exception of localStorage.length leaves the method
getEntities(f, st, m) ==
    LET prefix == f.appName \o "_"
        keys == {k \in DOMAIN st :
                    k # "" /\ StartsWith(k, prefix) /\ ~EndsWith(k, "_metadata")}
    IN IF ~f.isAvailable THEN Out(st, JArr({}), 0)
       ELSE IF m = "denied" THEN Out(st, Thrown, 1)
       ELSE Out(st, JArr({ReplaceFirst(k, prefix) : k \in keys}),
                1 + 2 * Cardinality(DOMAIN st))

\* new EnhancedStorageManager(appName, version): the facade built (if the
\* constructor returns) and the outcome of the calls it makes
constructor(a, ver, st, m, t1, t2) ==
    LET chk == _checkStorageAvailability(st, m)
        this == Facade(a, ver, chk.ret = JTrue)
        ini == _initializeApp(this, chk.store, m, t1, t2)
    IN [this |-> this,
        out |-> Out(ini.store, ini.ret, chk.accesses + ini.accesses)]

(***************************************************************************)
(* The inputs the callers draw from                                        *)
(***************************************************************************)
AppNames == {"app"}
Versions == {"1.0", "2.0"}
Entities == {"x", "_metadata"}
\* values handed to save: undefined is the one that is not JSON-serializable,
\* the object is one that can stand as a metadata record
Values == {JNum(1), JNull, Undef, JObj([entities |-> EmptyObj])}
\* defaults handed to load
Defaults == {JNull, JNum(7)}
\* bundles handed to importData: three that are not bundles, and bundles
\* whose data is JSON but need not be a wrapper
Bundles ==
    {JNull,
     JObj([data |-> JObj([app_x |-> JNum(5)])]),
     JObj([appName |-> JStr("app")]),
     JObj([appName |-> JStr("app"), data |-> JObj([app_x |-> JNum(5)])]),
     JObj([appName |-> JStr("app"), data |-> JObj([app__metadata |-> JNull])])}
StoreModes == {"ok", "quota", "denied"}

\* the readings of the clock a call can make after one at `now`
Later == {t \in {now, now + 1} : t <= MaxClock}

(***************************************************************************)
(* Actions: one per call of the facade's interface                         *)
(***************************************************************************)
\* no call has been made yet, or time has passed or the environment has
\* acted since the last one
NoCall == [op |-> "none"]

\* the call c (its name and arguments) ends with outcome o
Returns(c, o) ==
    /\ call' = c
    /\ store' = o.store
    /\ ret' = o.ret
    /\ accesses' = o.accesses

Construct(a, ver, t2) ==
    LET c == constructor(a, ver, store, storeMode, now, t2)
        fs == IF c.out.ret = Thrown THEN facades ELSE facades \cup {c.this}
    IN /\ Cardinality(fs) <= MaxFacades
       /\ Returns([op |-> "construct", appName |-> a, version |-> ver], c.out)
       /\ facades' = fs
       /\ now' = t2
       /\ UNCHANGED storeMode

Save(f, entity, data, t2) ==
    /\ Returns([op |-> "save", this |-> f, entity |-> entity, data |-> data],
               save(f, store, storeMode, entity, data, now, t2))
    /\ now' = t2
    /\ UNCHANGED <<facades, storeMode>>

Load(f, entity, defaultValue) ==
    /\ Returns([op |-> "load", this |-> f, entity |-> entity, defaultValue |-> defaultValue],
               load(f, store, storeMode, entity, defaultValue))
    /\ UNCHANGED <<facades, now, storeMode>>

Remove(f, entity) ==
    /\ Returns([op |-> "remove", this |-> f, entity |-> entity],
               remove(f, store, storeMode, entity))
    /\ UNCHANGED <<facades, now, storeMode>>

Clear(f) ==
    /\ Returns([op |-> "clear", this |-> f], clear(f, store, storeMode))
    /\ UNCHANGED <<facades, now, storeMode>>

ExportData(f) ==
    /\ Returns([op |-> "exportData", this |-> f], exportData(f, store, storeMode, now))
    /\ UNCHANGED <<facades, now, storeMode>>

ImportData(f, bundle) ==
    /\ Returns([op |-> "importData", this |-> f, importData |-> bundle],
               importData(f, store, storeMode, bundle))
    /\ UNCHANGED <<facades, now, storeMode>>

GetStorageInfo(f) ==
    /\ Returns([op |-> "getStorageInfo", this |-> f], getStorageInfo(f, store, storeMode))
    /\ UNCHANGED <<facades, now, storeMode>>

GetMetadata(f) ==
    /\ Returns([op |-> "getMetadata", this |-> f], getMetadata(f, store, storeMode, now))
    /\ UNCHANGED <<facades, now, storeMode>>

Exists(f, entity) ==
    /\ Returns([op |-> "exists", this |-> f, entity |-> entity], exists(f, store, storeMode, entity))
    /\ UNCHANGED <<facades, now, storeMode>>

GetEntities(f) ==
    /\ Returns([op |-> "getEntities", this |-> f], getEntities(f, store, storeMode))
    /\ UNCHANGED <<facades, now, storeMode>>

\* exportData() here, then importData(bundle) on a facade of the same
\* namespace constructed over a fresh, empty store
ExportImportFresh(f, ver, t2) ==
    LET bundle == exportData(f, store, storeMode, now).ret
        c == constructor(f.appName, ver, EmptyStore, storeMode, now, t2)
    IN /\ c.out.ret # Thrown
       /\ Returns([op |-> "exportImportFresh", this |-> f, version |-> ver],
                  importData(c.this, c.out.store, storeMode, bundle))
       /\ facades' = {c.this}
       /\ now' = t2
       /\ UNCHANGED storeMode

\* the wall clock advances between two calls
Tick ==
    /\ now < MaxClock
    /\ now' = now + 1
    /\ call' = NoCall /\ ret' = Undef /\ accesses' = 0
    /\ UNCHANGED <<store, facades, storeMode>>

Init ==
    /\ store = EmptyStore
    /\ facades = {}
    /\ now = 0
    /\ storeMode = "ok"
    /\ call = NoCall
    /\ ret = Undef
    /\ accesses = 0

Next ==
    \/ \E a \in AppNames, ver \in Versions, t2 \in Later : Construct(a, ver, t2)
    \/ \E f \in facades, e \in Entities, v \in Values, t2 \in Later : Save(f, e, v, t2)
    \/ \E f \in facades, e \in Entities, d \in Defaults : Load(f, e, d)
    \/ \E f \in facades, e \in Entities : Remove(f, e)
    \/ \E f \in facades : Clear(f)
    \/ \E f \in facades : ExportData(f)
    \/ \E f \in facades, b \in Bundles : ImportData(f, b)
    \/ \E f \in facades : GetStorageInfo(f)
    \/ \E f \in facades : GetMetadata(f)
    \/ \E f \in facades, e \in Entities : Exists(f, e)
    \/ \E f \in facades : GetEntities(f)
    \/ Tick

Spec == Init /\ [][Next]_vars

(***************************************************************************)
(* Backup and restore: the calls that change the store, and the export of  *)
(* a store imported into a fresh one                                       *)
(***************************************************************************)
NextRestore ==
    \/ \E ver \in Versions, t2 \in Later : Construct("app", ver, t2)
    \/ \E f \in facades, e \in Entities, v \in Values, t2 \in Later : Save(f, e, v, t2)
    \/ \E f \in facades, e \in Entities : Remove(f, e)
    \/ \E f \in facades : Clear(f)
    \/ \E f \in facades, b \in Bundles : ImportData(f, b)
    \/ \E f \in facades, ver \in Versions, t2 \in Later : ExportImportFresh(f, ver, t2)
    \/ Tick

RestoreSpec == Init /\ [][NextRestore]_vars

(***************************************************************************)
(* Two namespaces, one a prefix of the other, sharing the store            *)
(***************************************************************************)
IsoApps == {"app", "app2"}

NextIso ==
    \/ \E a \in IsoApps, t2 \in Later : Construct(a, "1.0", t2)
    \/ \E f \in facades, e \in Entities, t2 \in Later : Save(f, e, JNum(1), t2)
    \/ \E f \in facades, e \in Entities : Remove(f, e)
    \/ \E f \in facades : Clear(f)
    \/ \E f \in facades : GetEntities(f)
    \/ \E f \in facades : ExportData(f)
    \/ Tick

IsoSpec == Init /\ [][NextIso]_vars

(***************************************************************************)
(* A store that fails, and other scripts of the page writing to it         *)
(***************************************************************************)
\* what another script leaves under a key of the namespace
ExternalTexts == {RawText("{oops"), RawText(""), JsonText(JNum(5))}

\* the store starts or stops throwing (quota reached, storage disabled)
SetStoreMode(m) ==
    /\ m # storeMode
    /\ storeMode' = m
    /\ call' = NoCall /\ ret' = Undef /\ accesses' = 0
    /\ UNCHANGED <<store, facades, now>>

\* another script of the page writes the store directly
ExternalWrite(k, s) ==
    /\ storeMode = "ok"
    /\ store' = [kk \in DOMAIN store \cup {k} |-> IF kk = k THEN s ELSE store[kk]]
    /\ call' = NoCall /\ ret' = Undef /\ accesses' = 0
    /\ UNCHANGED <<facades, now, storeMode>>

InitFault ==
    /\ store = EmptyStore
    /\ facades = {}
    /\ now = 0
    /\ storeMode \in StoreModes
    /\ call = NoCall
    /\ ret = Undef
    /\ accesses = 0

NextFault ==
    \/ \E m \in StoreModes : SetStoreMode(m)
    \/ \E e \in Entities, s \in ExternalTexts : ExternalWrite("app_" \o e, s)
    \/ \E t2 \in Later : Construct("app", "1.0", t2)
    \/ \E f \in facades, e \in Entities, t2 \in Later : Save(f, e, JNum(1), t2)
    \/ \E f \in facades, e \in Entities, d \in Defaults : Load(f, e, d)
    \/ \E f \in facades, e \in Entities : Remove(f, e)
    \/ \E f \in facades : Clear(f)
    \/ \E f \in facades : ExportData(f)
    \/ \E f \in facades, b \in Bundles : ImportData(f, b)
    \/ \E f \in facades : GetStorageInfo(f)
    \/ \E f \in facades : GetMetadata(f)
    \/ \E f \in facades, e \in Entities : Exists(f, e)
    \/ \E f \in facades : GetEntities(f)
    \/ Tick

FaultSpec == InitFault /\ [][NextFault]_vars

(***************************************************************************)
(* Properties.  `call` holds the last call and its arguments, `ret` and    *)
(* `accesses` its outcome.                                                 *)
(***************************************************************************)
\* the facade can use the store: it found it available and it answers
Usable(f) == f.isAvailable /\ storeMode = "ok"

\* md.entities has an entry for entity e (md: what getMetadata returned)
HasEntry(md, e) ==
    LET ents == Prop(md, "entities")
    IN IsObj(ents) /\ e \in DOMAIN ents.f

\* a stored text is a wrapper record: the JSON text of an object with the
\* three fields save writes
IsWrapperText(s) ==
    /\ s.json
    /\ IsObj(s.v)
    /\ {"data", "timestamp", "version"} \subseteq DOMAIN s.v.f

\* C1: on an available store, save(e, v) of a JSON-serializable v followed
\* at once by load(e, d) returns v, whatever the default d and whatever
\* save itself returned.
C1_RoundTrip ==
    (call.op = "save" /\ Usable(call.this) /\ JSONSerializable(call.data))
        => \A d \in Defaults :
             load(call.this, store, storeMode, call.entity, d).ret = call.data

\* save("x", 1) has just returned true, and load("x", 7) gives 1
C1_Witness ==
    /\ call.op = "save" /\ call.entity = "x" /\ call.data = JNum(1)
    /\ ret = JTrue
    /\ load(call.this, store, storeMode, "x", JNum(7)).ret = JNum(1)

\* C2: clear() of a facade leaves every key that does not begin with
\* "<appName>_" in the store with its value, also when another namespace's
\* name extends this one's.
C2_NamespaceIsolation ==
    [][(call'.op = "clear" /\ Usable(call'.this) /\ Clear(call'.this))
        => \A k \in DOMAIN store :
             ~StartsWith(k, call'.this.appName \o "_")
                => (k \in DOMAIN store' /\ store'[k] = store[k])]_vars

\* C3: a save(e, v) with e other than "_metadata" that returns true leaves
\* getMetadata().entities[e] present, its lastUpdated being the timestamp
\* of e's stored record.
C3_MetadataTracking ==
    (call.op = "save" /\ call.entity # "_metadata" /\ Usable(call.this) /\ ret = JTrue)
        => LET md == getMetadata(call.this, store, storeMode, now).ret
           IN /\ HasEntry(md, call.entity)
              /\ Prop(Prop(md, "entities").f[call.entity], "lastUpdated")
                    = Prop(parse(store[_getKey(call.this, call.entity)]), "timestamp")

\* C4: constructing the facade over a store that throws on every access
\* returns to the caller with a facade whose isAvailable is false, and
\* accesses the store no more after the probe's first, failing access.
C4_ConstructionNeverFails ==
    (call.op = "construct" /\ storeMode = "denied")
        => /\ ret # Thrown
           /\ Facade(call.appName, call.version, FALSE) \in facades
           /\ accesses <= 1

\* what the call c returns on a facade that is not available
SafeDefault(c, t) ==
    CASE c.op = "save" -> JFalse
      [] c.op = "load" -> c.defaultValue
      [] c.op = "remove" -> JFalse
      [] c.op = "clear" -> JFalse
      [] c.op = "exportData" -> JNull
      [] c.op = "importData" -> JFalse
      [] c.op = "getStorageInfo" -> JObj([available |-> JFalse])
      [] c.op = "getMetadata" -> DefaultMetadata(c.this, t)
      [] c.op = "exists" -> JFalse
      [] c.op = "getEntities" -> JArr({})

\* C5: every call on a facade whose isAvailable is false returns its safe
\* default, makes no store access and leaves the store as it is; and a
\* facade, once constructed, stays as it is.
C5_UnavailableDegradation ==
    [][/\ facades \subseteq facades'
       /\ (call'.op \notin {"none", "construct"} /\ ~call'.this.isAvailable)
            => /\ ret' = SafeDefault(call', now')
               /\ accesses' = 0
               /\ store' = store]_vars

\* a facade that found the store unavailable stands over a store that
\* answers again and holds a record, and its load has returned the default
C5_Witness ==
    /\ call.op = "load" /\ call.entity = "x" /\ ~call.this.isAvailable
    /\ storeMode = "ok"
    /\ "app_x" \in DOMAIN store /\ IsWrapperText(store["app_x"])
    /\ ret = call.defaultValue /\ accesses = 0

\* C6: on an available store, once remove(e) has returned, exists(e) is
\* false, getEntities() lacks e and, for e other than "_metadata",
\* getMetadata().entities has no entry for e.
C6_Removal ==
    (call.op = "remove" /\ Usable(call.this))
        => /\ exists(call.this, store, storeMode, call.entity).ret = JFalse
           /\ call.entity \notin getEntities(call.this, store, storeMode).ret.elems
           /\ call.entity # "_metadata"
                => ~HasEntry(getMetadata(call.this, store, storeMode, now).ret, call.entity)

\* remove("x") has returned true and left a metadata record whose entities
\* map is empty, while the record's wrapper still bears the version of the
\* other facade, the one whose save last updated the entry
C6_Witness ==
    /\ call.op = "remove" /\ call.entity = "x" /\ ret = JTrue
    /\ "app_x" \notin DOMAIN store
    /\ "app__metadata" \in DOMAIN store
    /\ IsWrapperText(store["app__metadata"])
    /\ Prop(Prop(store["app__metadata"].v, "data"), "entities") = EmptyObj
    /\ Prop(Prop(store["app__metadata"].v, "data"), "version")
          # Prop(store["app__metadata"].v, "version")

\* C7: exportData() in a store, then importData of that bundle on a
\* facade of the same namespace over a fresh store, returns true and gives
\* a store with the same getEntities() and, for every entity present
\* before, the same load.
C7_ExportImportRoundTrip ==
    [][(call'.op = "exportImportFresh" /\ Usable(call'.this))
        => LET f == call'.this
               g == Facade(f.appName, call'.version, TRUE)
           IN /\ ret' = JTrue
              /\ facades' = {g}
              /\ getEntities(g, store', storeMode').ret = getEntities(f, store, storeMode).ret
              /\ \A e \in Entities :
                   exists(f, store, storeMode, e).ret = JTrue
                     => \A d \in Defaults :
                          load(g, store', storeMode', e, d).ret
                             = load(f, store, storeMode, e, d).ret]_vars

\* the bundle of a version "1.0" facade has been imported into a fresh
\* store by a version "2.0" facade: "x" is there with its value and with
\* its entry in the metadata record, which was created before the import
C7_Witness ==
    /\ call.op = "exportImportFresh" /\ ret = JTrue
    /\ call.this.version = "1.0" /\ call.version = "2.0"
    /\ load(Facade("app", "2.0", TRUE), store, storeMode, "x", JNum(7)).ret = JNum(1)
    /\ HasEntry(getMetadata(Facade("app", "2.0", TRUE), store, storeMode, now).ret, "x")
    /\ Prop(getMetadata(Facade("app", "2.0", TRUE), store, storeMode, now).ret, "createdAt")
          = Iso(0)
    /\ now > 0

\* a bundle that is null (or no object at all), or that has no appName or
\* no data
InvalidBundle(b) ==
    \/ ~IsObj(b)
    \/ "appName" \notin DOMAIN b.f
    \/ "data" \notin DOMAIN b.f

\* C8: importData of a bundle that is null or lacks appName or data returns
\* false and leaves every key and value of the store as it was.
C8_InvalidImportRejected ==
    [][(call'.op = "importData" /\ Usable(call'.this) /\ InvalidBundle(call'.importData))
        => (ret' = JFalse /\ store' = store)]_vars

\* a bundle without appName, whose data names "app_x", has been refused:
\* the store holds its metadata record and nothing under "app_x"
C8_Witness ==
    /\ call.op = "importData" /\ ret = JFalse
    /\ IsObj(call.importData)
    /\ "appName" \notin DOMAIN call.importData.f
    /\ "app_x" \in DOMAIN Prop(call.importData, "data").f
    /\ "app__metadata" \in DOMAIN store
    /\ "app_x" \notin DOMAIN store

\* the namespace a call works on
CallApp(c) == IF c.op = "construct" THEN c.appName ELSE c.this.appName

\* createdAt of the metadata record held under key k (undefined when the
\* text there has none)
CreatedAt(st, k) ==
    LET data == IF st[k].json THEN Prop(st[k].v, "data") ELSE Thrown
        createdAt == Prop(data, "createdAt")
    IN IF data = Thrown \/ createdAt = Thrown THEN Undef ELSE createdAt

\* C9 as stated: once the metadata record of a namespace exists, a
\* construction on that namespace leaves the store unchanged, and every
\* construction, save and remove leaves the record in place with its
\* createdAt.
C9_AsStated ==
    [][(/\ call'.op \in {"construct", "save", "remove"}
        /\ storeMode = "ok"
        /\ call'.op = "save" => JSONSerializable(call'.data))
        => LET k == CallApp(call') \o "__metadata"
           IN k \in DOMAIN store
                => /\ call'.op = "construct" => store' = store
                   /\ k \in DOMAIN store'
                   /\ CreatedAt(store', k) = CreatedAt(store, k)]_vars

\* C9, amended: the same, for constructions and for save and remove of
\* entities other than "_metadata".
C9_IdempotentConstruction ==
    [][(/\ call'.op \in {"construct", "save", "remove"}
        /\ storeMode = "ok"
        /\ call'.op # "construct" => call'.entity # "_metadata")
        => LET k == CallApp(call') \o "__metadata"
           IN k \in DOMAIN store
                => /\ call'.op = "construct" => store' = store
                   /\ k \in DOMAIN store'
                   /\ CreatedAt(store', k) = CreatedAt(store, k)]_vars

\* a facade of version "2.0" has been constructed, later, on the namespace
\* whose metadata record a version "1.0" facade created at instant 0: the
\* record is still the first facade's
C9_Witness ==
    /\ call.op = "construct" /\ call.version = "2.0"
    /\ now > 0
    /\ "app__metadata" \in DOMAIN store
    /\ CreatedAt(store, "app__metadata") = Iso(0)
    /\ Prop(Prop(store["app__metadata"].v, "data"), "version") = JStr("1.0")
    /\ Facade("app", "1.0", TRUE) \in facades

\* C10: load(e, d) returns d whenever the key of e is absent or holds a
\* text that is not a wrapper record (not JSON, or JSON of something else).
C10_DefaultOnMissOrCorrupt ==
    (call.op = "load")
        => LET k == _getKey(call.this, call.entity)
           IN (k \notin DOMAIN store \/ ~IsWrapperText(store[k]))
                => ret = call.defaultValue

(***************************************************************************)
(* Entity names: names that end in "_metadata" or contain the prefix,      *)
(* saved and removed by one facade                                         *)
(***************************************************************************)
NamedEntities == {"x", "user_metadata", "app_x"}

NextNames ==
    \/ \E t2 \in Later : Construct("app", "1.0", t2)
    \/ \E f \in facades, e \in NamedEntities, t2 \in Later : Save(f, e, JNum(1), t2)
    \/ \E f \in facades, e \in NamedEntities : Remove(f, e)
    \/ \E f \in facades, e \in NamedEntities : Exists(f, e)
    \/ \E f \in facades : GetEntities(f)
    \/ \E f \in facades : GetMetadata(f)
    \/ Tick

NamesSpec == Init /\ [][NextNames]_vars

\* C11: getEntities() lists an entity other than "_metadata" exactly when
\* exists says it is stored, whatever its name ends in or contains, and
\* never lists "_metadata".
C11_GetEntitiesExact ==
    (call.op = "getEntities" /\ Usable(call.this))
        => /\ "_metadata" \notin ret.elems
           /\ \A e \in NamedEntities :
                e \in ret.elems <=> exists(call.this, store, storeMode, e).ret = JTrue

\* the names under which getMetadata().entities has an entry
EntryNames(md) ==
    LET ents == Prop(md, "entities")
    IN IF IsObj(ents) THEN DOMAIN ents.f ELSE {}

\* C16: after construction on an empty store and any saves and removes of
\* entities other than "_metadata", the names in getMetadata().entities
\* are the names exists answers true for.
C16_IndexAgreesWithStore ==
    \A f \in facades :
        EntryNames(getMetadata(f, store, storeMode, now).ret)
            = {e \in NamedEntities : exists(f, store, storeMode, e).ret = JTrue}

\* remove("x") has returned true and the index and the store both hold
\* "user_metadata" and "app_x" and no more
C16_Witness ==
    /\ call.op = "remove" /\ call.entity = "x" /\ ret = JTrue
    /\ EntryNames(getMetadata(call.this, store, storeMode, now).ret)
          = {"user_metadata", "app_x"}
    /\ DOMAIN store = {"app__metadata", "app_user_metadata", "app_app_x"}

\* C12: on a facade constructed over an available store, whatever the
\* store does afterwards (throws on writes, throws on every access, holds
\* a corrupt record), no public operation hands an exception to its caller.
C12_TotalContract ==
    (call.op \notin {"none", "construct"} /\ call.this.isAvailable)
        => ret # Thrown

\* C13: once clear() has returned true, no key beginning "<appName>_" is
\* left, exists is false for every entity and for "_metadata",
\* getEntities() is empty and getMetadata() is the default metadata, whose
\* entities map is empty.
C13_ClearEmptiesNamespace ==
    (call.op = "clear" /\ Usable(call.this) /\ ret = JTrue)
        => LET f == call.this
           IN /\ \A k \in DOMAIN store : ~StartsWith(k, f.appName \o "_")
              /\ \A e \in Entities \cup NamedEntities :
                   exists(f, store, storeMode, e).ret = JFalse
              /\ getEntities(f, store, storeMode).ret = JArr({})
              /\ getMetadata(f, store, storeMode, now).ret = DefaultMetadata(f, now)
              /\ Prop(getMetadata(f, store, storeMode, now).ret, "entities") = EmptyObj

\* clear() of "app2" has returned true over a store that held records, and
\* the records of "app" are still there
C13_Witness ==
    /\ call.op = "clear" /\ ret = JTrue /\ call.this.appName = "app2"
    /\ accesses = 2
    /\ DOMAIN store = {"app__metadata", "app_x"}

\* the keys "<appName>_<entity>" of a facade's namespace held by a store
OwnKeys(f, st) == {k \in DOMAIN st : StartsWith(k, f.appName \o "_")}

\* C14: with keys of other namespaces in the store, one of them named by
\* extending this facade's appName, exportData() returns a bundle whose
\* data has exactly the keys "<appName>_<entity>" of the store, each with
\* its parsed wrapper.
C14_ExportScoped ==
    (call.op = "exportData" /\ Usable(call.this)
       /\ \A k \in OwnKeys(call.this, store) : parse(store[k]) # Thrown)
        => /\ IsObj(ret)
           /\ IsObj(Prop(ret, "data"))
           /\ DOMAIN Prop(ret, "data").f = OwnKeys(call.this, store)
           /\ \A k \in OwnKeys(call.this, store) :
                Prop(ret, "data").f[k] = parse(store[k])

\* every key but k is in both stores or in neither, with the same value
SameExcept(st1, st2, k) ==
    \A kk \in (DOMAIN st1 \cup DOMAIN st2) \ {k} :
        kk \in DOMAIN st1 /\ kk \in DOMAIN st2 /\ st1[kk] = st2[kk]

\* C15: after construction and any saves, removes and clears, the entities
\* map of the metadata record has no "_metadata" key; save("_metadata", v)
\* writes the wrapper of v under the metadata key and remove("_metadata")
\* deletes that key, and neither touches another key nor updates the
\* metadata any further.
C15_NoSelfReference ==
    [][/\ \A f \in facades' :
            "_metadata" \notin EntryNames(getMetadata(f, store', storeMode', now').ret)
       /\ (call'.op = "save" /\ call'.entity = "_metadata" /\ Usable(call'.this))
            => /\ ret' = JTrue
               /\ SameExcept(store, store', _getKey(call'.this, "_metadata"))
               /\ store'[_getKey(call'.this, "_metadata")]
                     = stringify(Wrapper(call'.data, now, call'.this.version))
       /\ (call'.op = "remove" /\ call'.entity = "_metadata" /\ Usable(call'.this))
            => /\ ret' = JTrue
               /\ SameExcept(store, store', _getKey(call'.this, "_metadata"))
               /\ _getKey(call'.this, "_metadata") \notin DOMAIN store']_vars

\* save("_metadata", v) of a v with an empty entities map has returned
\* true beside a record of "x": getMetadata() gives v back, with no entry
C15_Witness ==
    /\ call.op = "save" /\ call.entity = "_metadata" /\ ret = JTrue
    /\ call.data = JObj([entities |-> EmptyObj])
    /\ "app_x" \in DOMAIN store
    /\ getMetadata(call.this, store, storeMode, now).ret = call.data

\* a bundle with an appName and a data object
ValidBundle(b) ==
    /\ IsObj(b)
    /\ ~Falsy(Prop(b, "appName"))
    /\ IsObj(Prop(b, "data"))

\* C17: importData of a valid bundle returns true, leaves under each key of
\* bundle.data the JSON text of its value, and leaves every other key as
\* it was; the entities map of the metadata stays as it was unless the
\* metadata key is one of the bundle's.
C17_ImportFootprint ==
    [][(call'.op = "importData" /\ Usable(call'.this) /\ ValidBundle(call'.importData))
        => LET data == Prop(call'.importData, "data")
               f == call'.this
           IN /\ ret' = JTrue
              /\ \A k \in DOMAIN data.f :
                   k \in DOMAIN store' /\ store'[k] = JsonText(data.f[k])
              /\ \A k \in (DOMAIN store \cup DOMAIN store') \ DOMAIN data.f :
                   k \in DOMAIN store /\ k \in DOMAIN store' /\ store'[k] = store[k]
              /\ _getKey(f, "_metadata") \notin DOMAIN data.f
                   => getMetadata(f, store', storeMode', now').ret
                         = getMetadata(f, store, storeMode, now).ret]_vars

\* a bundle naming "app_x" has been imported: the key holds the text of
\* the bundle's value, which is no wrapper, and the metadata record, still
\* there, has no entry for "x"
C17_Witness ==
    /\ call.op = "importData" /\ ret = JTrue
    /\ "app_x" \in DOMAIN Prop(call.importData, "data").f
    /\ store["app_x"] = JsonText(JNum(5))
    /\ "app__metadata" \in DOMAIN store
    /\ IsWrapperText(store["app__metadata"])
    /\ ~HasEntry(getMetadata(call.this, store, storeMode, now).ret, "x")

(***************************************************************************)
(* Queries over records that are absent, written by a facade of either     *)
(* version, or written by another script                                   *)
(***************************************************************************)
NextQuery ==
    \/ \E ver \in Versions, t2 \in Later : Construct("app", ver, t2)
    \/ \E f \in facades, e \in Entities, t2 \in Later : Save(f, e, JNum(1), t2)
    \/ \E f \in facades, e \in Entities : Remove(f, e)
    \/ \E e \in Entities, s \in ExternalTexts : ExternalWrite("app_" \o e, s)
    \/ \E f \in facades, e \in Entities, d \in Defaults : Load(f, e, d)
    \/ \E f \in facades, e \in Entities : Exists(f, e)
    \/ \E f \in facades : GetEntities(f)
    \/ \E f \in facades : GetMetadata(f)
    \/ \E f \in facades : ExportData(f)
    \/ \E f \in facades : GetStorageInfo(f)
    \/ Tick

QuerySpec == Init /\ [][NextQuery]_vars

QueryOps == {"load", "exists", "getEntities", "getMetadata", "exportData", "getStorageInfo"}

\* what the query c returns when called in store st at time t
Answer(c, st, m, t) ==
    CASE c.op = "load" -> load(c.this, st, m, c.entity, c.defaultValue).ret
      [] c.op = "exists" -> exists(c.this, st, m, c.entity).ret
      [] c.op = "getEntities" -> getEntities(c.this, st, m).ret
      [] c.op = "getMetadata" -> getMetadata(c.this, st, m, t).ret
      [] c.op = "exportData" -> exportData(c.this, st, m, t).ret
      [] c.op = "getStorageInfo" -> getStorageInfo(c.this, st, m).ret

C19_FailedCallChangesNothing ==
    [][(call'.op \in {"save", "remove"} /\ call'.this.isAvailable /\ ret' = JFalse)
        => store' = store]_vars

====
